---- MODULE Spec2Model ----
(***************************************************************************)
(* A model of the batch image transcoder of src-tauri/src/commands.rs:     *)
(* the command save_images, run over a small file system.                  *)
(*                                                                         *)
(* The file system is a function from a finite tree of paths to what is    *)
(* stored there.  One call of save_images is a sequence of steps (decode,  *)
(* resize, create_dir_all, encode and write) per job, in the order of the  *)
(* for loop; the `?` after a fallible step returns the error at once.      *)
(***************************************************************************)
EXTENDS Integers, Sequences, FiniteSets, TLC

\* ------------------------------------------------------------------ bounds

\* The longest job list handed to save_images.
MaxJobs == 3

\* How many times save_images is called in a row (the second call repeats
\* the first call's job list).
MaxCalls == 2

\* quality is a u8.
MaxQuality == 255

\* ------------------------------------------------------------------- paths

\* A path is the sequence of its components; <<>> is the root directory.
Root == <<>>

Paths ==
    { Root, <<"a.png">>, <<"b.jpg">>, <<"d">>, <<"d", "e">>,
      <<"d", "e", "o.png">>, <<"d", "q">> }

\* Path::parent(): None for the root, else the path without its last component.
HasParent(p) == Len(p) > 0

Parent(p) == SubSeq(p, 1, Len(p) - 1)

\* p and all its ancestors, the root included.
Prefixes(p) == { SubSeq(p, 1, n) : n \in 0..Len(p) }

\* The container a path's extension names ("" when it names none).
ExtOf(p) ==
    IF p = Root THEN ""
    ELSE CASE p[Len(p)] = "a.png" -> "png"
           [] p[Len(p)] = "o.png" -> "png"
           [] p[Len(p)] = "b.jpg" -> "jpg"
           [] OTHER -> ""

\* ---------------------------------------------------------- file contents

\* Every content is a record of the same shape.  kind is one of "absent",
\* "dir", "partial" (a truncated or incomplete file), "image" (the bytes of
\* an encoded image) and "none" (no bytes at all: a step that writes nothing).
Content(kind, container, lossless, level, w, h, color, pix) ==
    [ kind |-> kind, container |-> container, lossless |-> lossless,
      level |-> level, w |-> w, h |-> h, color |-> color, pix |-> pix ]

Absent == Content("absent", "", FALSE, 0, 0, 0, "", <<>>)

Dir == Content("dir", "", FALSE, 0, 0, 0, "", <<>>)

Partial == Content("partial", "", FALSE, 0, 0, 0, "", <<>>)

NoData == Content("none", "", FALSE, 0, 0, 0, "", <<>>)

\* The pixels of an image are the history of what produced them: the
\* original picture, then every resampling and every lossy encoding.
PixOp(op, a, b) == [ op |-> op, a |-> a, b |-> b ]

Original(id) == << PixOp("orig", id, 0) >>

Exists(f, p) == f[p].kind # "absent"

IsDir(f, p) == f[p].kind = "dir"

IsFile(f, p) == f[p].kind \in { "partial", "image" }

\* ------------------------------------------------------------ image codec

\* A decoded image (DynamicImage): dimensions, pixel format and pixels.
Image(w, h, color, pix) == [ w |-> w, h |-> h, color |-> color, pix |-> pix ]

NoImage == Image(0, 0, "", <<>>)

\* image::open(path): the file is there, holds an image, and its container is
\* the one the path's extension names (the decoder is chosen by extension).
CanDecode(f, p) ==
    /\ f[p].kind = "image"
    /\ f[p].container = ExtOf(p)

DecodedImage(c) == Image(c.w, c.h, c.color, c.pix)

\* img.resize_exact(nwidth, nheight, Lanczos3): exactly the asked dimensions,
\* no aspect ratio kept; resampling to the image's own size changes nothing.
ResizeExact(im, nwidth, nheight) ==
    IF im.w = nwidth /\ im.h = nheight
    THEN im
    ELSE Image(nwidth, nheight, im.color,
               Append(im.pix, PixOp("resize", nwidth, nheight)))

\* resized.to_rgba8()
ToRgba8(im) == Image(im.w, im.h, "rgba8", im.pix)

\* A faulty WebpEncode: lossless from 100 upwards.
WebpEncodeAtLeast100(im, quality) ==
    IF quality >= 100
    THEN Content("image", "webp", TRUE, 0, im.w, im.h, im.color, im.pix)
    ELSE Content("image", "webp", FALSE, quality, im.w, im.h, im.color,
                 Append(im.pix, PixOp("lossy-webp", quality, 0)))

\* if quality == 100 { encoder.encode_lossless() } else { encoder.encode(quality as f32) }
WebpEncode(im, quality) ==
    IF quality = 100
    THEN Content("image", "webp", TRUE, 0, im.w, im.h, im.color, im.pix)
    ELSE Content("image", "webp", FALSE, quality, im.w, im.h, im.color,
                 Append(im.pix, PixOp("lossy-webp", quality, 0)))

\* resized.save(path): the encoder is the one the extension names, at the
\* codec's own default settings (level -1 stands for "the codec default").
SaveEncode(im, ext) ==
    IF ext = "png"
    THEN Content("image", "png", TRUE, 0, im.w, im.h, im.color, im.pix)
    ELSE Content("image", "jpg", FALSE, -1, im.w, im.h, "rgb8",
                 Append(im.pix, PixOp("lossy-jpg", -1, 0)))

\* ------------------------------------------------------------------- jobs

OutputFormat == { "KeepOriginal", "Png", "Jpeg", "Webp" }

GenericFormats == { "KeepOriginal", "Png", "Jpeg" }

ImageToSave(path, dest, tw, th, fmt, q) ==
    [ path |-> path, destination_path |-> dest, target_width |-> tw,
      target_height |-> th, output_format |-> fmt, quality |-> q ]

\* A faulty DestFilePath: the output goes to the path it was read from.
DestFilePathIsSource(job) == job.path

\* let dest_file_path = Path::new(&image_info.destination_path)
DestFilePath(job) == job.destination_path

\* A faulty EncodeData: the quality is threaded through to the JPEG encoder
\* of the generic branch.
EncodeDataJpegQuality(im, job) ==
    IF job.output_format = "Webp"
    THEN [ ok |-> TRUE, data |-> WebpEncode(ToRgba8(im), job.quality) ]
    ELSE IF ExtOf(DestFilePath(job)) = ""
         THEN [ ok |-> FALSE, data |-> NoData ]
         ELSE IF ExtOf(DestFilePath(job)) = "jpg"
              THEN [ ok |-> TRUE,
                     data |-> Content("image", "jpg", FALSE, job.quality,
                                      im.w, im.h, "rgb8",
                                      Append(im.pix, PixOp("lossy-jpg", job.quality, 0))) ]
              ELSE [ ok |-> TRUE,
                     data |-> SaveEncode(im, ExtOf(DestFilePath(job))) ]

\* match output_format: the bytes the job is about to write, or no bytes when
\* the generic branch finds no encoder for the destination's extension.
EncodeData(im, job) ==
    IF job.output_format = "Webp"
    THEN [ ok |-> TRUE, data |-> WebpEncode(ToRgba8(im), job.quality) ]
    ELSE IF ExtOf(DestFilePath(job)) = ""
         THEN [ ok |-> FALSE, data |-> NoData ]
         ELSE [ ok |-> TRUE,
                data |-> SaveEncode(im, ExtOf(DestFilePath(job))) ]

\* ------------------------------------------------------------ file system

Outcome(ok, f) == [ ok |-> ok, fs |-> f ]

MkDirs(f, S) == [ q \in Paths |-> IF q \in S THEN Dir ELSE f[q] ]

Missing(f, p) == { q \in Prefixes(p) : ~Exists(f, q) }

\* Some ancestor of p, or p itself, is there and is no directory.
Blocked(f, p) == \E q \in Prefixes(p) : Exists(f, q) /\ ~IsDir(f, q)

\* A faulty CreateDirAll: std::fs::create_dir, which makes one directory,
\* and fails when it is there already or its parent is not.
CreateDir(f, p) ==
    IF Exists(f, p) \/ ~IsDir(f, Parent(p))
    THEN { Outcome(FALSE, f) }
    ELSE { Outcome(TRUE, MkDirs(f, {p})), Outcome(FALSE, f) }

\* std::fs::create_dir_all(p): what it may do to the file system f.  Nothing
\* when every directory is there already; no success under a file; else the
\* missing directories are made from the top down, all of them or, when the
\* system refuses one, only those above it.
CreateDirAll(f, p) ==
    IF Blocked(f, p)
    THEN { Outcome(FALSE, f) }
    ELSE IF Missing(f, p) = {}
         THEN { Outcome(TRUE, f) }
         ELSE { Outcome(TRUE, MkDirs(f, Missing(f, p))) }
              \cup { Outcome(FALSE, MkDirs(f, { q \in Missing(f, p) : Len(q) <= n }))
                     : n \in 0..(Len(p) - 1) }

\* A faulty FsWrite: the file is opened for appending, so that the bytes
\* written follow what the file held and the file is no longer the image.
FsWriteAppend(f, p, data) ==
    IF IsDir(f, p) \/ ~HasParent(p) \/ ~IsDir(f, Parent(p))
    THEN { Outcome(FALSE, f) }
    ELSE { Outcome(TRUE, [f EXCEPT ![p] = IF IsFile(f, p) THEN Partial ELSE data]),
           Outcome(FALSE, f),
           Outcome(FALSE, [f EXCEPT ![p] = Partial]) }

\* A faulty FsWrite: the write is reported done and nothing is written.
FsWriteNothing(f, p, data) ==
    IF IsDir(f, p) \/ ~HasParent(p) \/ ~IsDir(f, Parent(p))
    THEN { Outcome(FALSE, f) }
    ELSE { Outcome(TRUE, f), Outcome(FALSE, f) }

\* Creating the file at p and writing data to it (std::fs::write, and the
\* File::create and write inside save): the file is replaced whole; or the
\* file cannot be opened and nothing changes; or the write stops after the
\* file was truncated.
FsWrite(f, p, data) ==
    IF IsDir(f, p) \/ ~HasParent(p) \/ ~IsDir(f, Parent(p))
    THEN { Outcome(FALSE, f) }
    ELSE { Outcome(TRUE, [f EXCEPT ![p] = data]),
           Outcome(FALSE, f),
           Outcome(FALSE, [f EXCEPT ![p] = Partial]) }

\* ------------------------------------------------------------------ state

VARIABLES
    fs,           \* the file system: what is stored at each path
    images,       \* the job list of the running (or last) call
    i,            \* how many jobs the for loop has taken from the list
    pc,           \* where the call stands: idle, loop, decode, resize, mkdir, encode, done
    img,          \* the decoded source image of the current job
    resized,      \* the resized image of the current job
    saved_count,  \* the running count of saved images
    result,       \* what the call returned: Ok(SaveResult) or Err(message)
    calls,        \* how many calls were started
    fs0,          \* the file system when the running call started
    log,          \* the steps the running call has executed, in order
    prevFs,       \* the file system when the previous call returned
    prevOk        \* whether the previous call returned Ok

vars ==
    << fs, images, i, pc, img, resized, saved_count, result, calls, fs0, log,
       prevFs, prevOk >>

NoResult == [ kind |-> "none", success |-> FALSE, saved_count |-> 0 ]

\* Ok(SaveResult { success: true, saved_count })
OkResult(n) == [ kind |-> "ok", success |-> TRUE, saved_count |-> n ]

\* Err(e.to_string())
ErrResult == [ kind |-> "err", success |-> FALSE, saved_count |-> 0 ]

\* ----------------------------------------------------------------- inputs

ImageA == Content("image", "png", TRUE, 0, 2, 2, "rgb8", Original(1))

ImageB == Content("image", "jpg", FALSE, -1, 1, 2, "rgb8", Original(2))

ImageO == Content("image", "png", TRUE, 0, 2, 1, "rgba8", Original(3))

EmptyFs == [ q \in Paths |-> IF q = Root THEN Dir ELSE Absent ]

\* The file systems a call may start from: two sources and no destination
\* directory; one source missing, the destination tree and an old output
\* there; one source unreadable and a file where a directory is wanted.
InitialFs ==
    { [ EmptyFs EXCEPT ![<<"a.png">>] = ImageA, ![<<"b.jpg">>] = ImageB ],
      [ EmptyFs EXCEPT ![<<"a.png">>] = ImageA, ![<<"d">>] = Dir,
                       ![<<"d", "e">>] = Dir, ![<<"d", "e", "o.png">>] = ImageO ],
      [ EmptyFs EXCEPT ![<<"a.png">>] = ImageA, ![<<"b.jpg">>] = Partial,
                       ![<<"d">>] = Partial ] }

\* The jobs the batches are made of.
JobPool ==
    { ImageToSave(<<"a.png">>, <<"d", "e", "o.png">>, 1, 1, "Png", 80),
      ImageToSave(<<"b.jpg">>, <<"d", "e", "o.png">>, 2, 1, "Webp", 100),
      ImageToSave(<<"b.jpg">>, <<"b.jpg">>, 1, 1, "Jpeg", 50),
      ImageToSave(<<"d", "e", "o.png">>, <<"a.png">>, 1, 2, "KeepOriginal", 100),
      ImageToSave(<<"a.png">>, <<"d", "q">>, 0, 1, "Webp", 99),
      ImageToSave(<<"a.png">>, <<"d", "q">>, 2, 2, "Png", 80),
      ImageToSave(<<"a.png">>, Root, 1, 1, "Png", 80) }

Batches == UNION { [1..n -> JobPool] : n \in 0..MaxJobs }

\* ---------------------------------------------------------------- actions

\* A faulty JobAt: the list is walked from its end.
JobAtReversed(n) == images[Len(images) + 1 - n]

\* for image_info in images: the n-th job the loop takes.
JobAt(n) == images[n]

\* A faulty Try: a failed step is skipped and the loop goes on.
TryAndGoOn(ok, next) == IF ok THEN next ELSE "loop"

\* step.map_err(|e| e.to_string())?: go on to `next`, or return the error.
Try(ok, next) == IF ok THEN next ELSE "done"

\* A faulty Counted: the count is left as it was.
NotCounted(n) == n

\* saved_count += 1
Counted(n) == n + 1

Logged(step, ok, data) ==
    Append(log, [ job |-> i, info |-> JobAt(i), step |-> step, ok |-> ok,
                  data |-> data ])

Start(b) ==
    /\ images' = b
    /\ i' = 0
    /\ saved_count' = 0
    /\ pc' = "loop"
    /\ calls' = calls + 1
    /\ fs0' = fs
    /\ log' = <<>>
    /\ result' = NoResult
    /\ img' = NoImage
    /\ resized' = NoImage
    /\ UNCHANGED fs

\* save_images(images) is called.
Invoke ==
    /\ pc = "idle"
    /\ \E b \in Batches : Start(b)
    /\ UNCHANGED << prevFs, prevOk >>

\* save_images is called again with the job list of the call that returned.
Reinvoke ==
    /\ pc = "done"
    /\ calls < MaxCalls
    /\ prevFs' = fs
    /\ prevOk' = (result.kind = "ok")
    /\ Start(images)

\* The for loop takes the next job.
NextJob ==
    /\ pc = "loop"
    /\ i < Len(images)
    /\ i' = i + 1
    /\ pc' = "decode"
    /\ img' = NoImage
    /\ resized' = NoImage
    /\ UNCHANGED << fs, images, saved_count, result, calls, fs0, log, prevFs, prevOk >>

\* The list is exhausted: Ok(SaveResult { success: true, saved_count }).
ReturnOk ==
    /\ pc = "loop"
    /\ i = Len(images)
    /\ pc' = "done"
    /\ result' = OkResult(saved_count)
    /\ UNCHANGED << fs, images, i, img, resized, saved_count, calls, fs0, log,
                    prevFs, prevOk >>

\* STEP 1: let img = image::open(&image_info.path).map_err(..)?
Decode ==
    /\ pc = "decode"
    /\ LET ok == CanDecode(fs, JobAt(i).path)
       IN  /\ img' = IF ok THEN DecodedImage(fs[JobAt(i).path]) ELSE img
           /\ pc' = Try(ok, "resize")
           /\ result' = IF ok THEN result ELSE ErrResult
           /\ log' = Logged("decode", ok, NoData)
    /\ UNCHANGED << fs, images, i, resized, saved_count, calls, fs0, prevFs, prevOk >>

\* STEP 2: let resized = img.resize_exact(target_width, target_height, Lanczos3)
Resize ==
    /\ pc = "resize"
    /\ resized' = ResizeExact(img, JobAt(i).target_width, JobAt(i).target_height)
    /\ pc' = "mkdir"
    /\ log' = Logged("resize", TRUE, NoData)
    /\ UNCHANGED << fs, images, i, img, saved_count, result, calls, fs0, prevFs, prevOk >>

\* if let Some(parent) = dest_file_path.parent() { create_dir_all(parent).map_err(..)? }
EnsureDir ==
    /\ pc = "mkdir"
    /\ \E o \in IF HasParent(DestFilePath(JobAt(i)))
                THEN CreateDirAll(fs, Parent(DestFilePath(JobAt(i))))
                ELSE { Outcome(TRUE, fs) } :
           /\ fs' = o.fs
           /\ pc' = Try(o.ok, "encode")
           /\ result' = IF o.ok THEN result ELSE ErrResult
           /\ log' = Logged("mkdir", o.ok, NoData)
    /\ UNCHANGED << images, i, img, resized, saved_count, calls, fs0, prevFs, prevOk >>

\* STEP 3: match output_format { Webp => std::fs::write(dest, webp_data)?,
\* _ => resized.save(dest)? }; saved_count += 1
EncodeWrite ==
    /\ pc = "encode"
    /\ LET enc == EncodeData(resized, JobAt(i))
       IN  \E o \in IF enc.ok
                    THEN FsWrite(fs, DestFilePath(JobAt(i)), enc.data)
                    ELSE { Outcome(FALSE, fs) } :
               /\ fs' = o.fs
               /\ pc' = Try(o.ok, "loop")
               /\ result' = IF o.ok THEN result ELSE ErrResult
               /\ saved_count' = IF o.ok THEN Counted(saved_count) ELSE saved_count
               /\ log' = Logged("write", o.ok, enc.data)
    /\ UNCHANGED << images, i, img, resized, calls, fs0, prevFs, prevOk >>

Init ==
    /\ fs \in InitialFs
    /\ images = <<>>
    /\ i = 0
    /\ pc = "idle"
    /\ img = NoImage
    /\ resized = NoImage
    /\ saved_count = 0
    /\ result = NoResult
    /\ calls = 0
    /\ fs0 = fs
    /\ log = <<>>
    /\ prevFs = fs
    /\ prevOk = FALSE

Next ==
    \/ Invoke
    \/ Reinvoke
    \/ NextJob
    \/ ReturnOk
    \/ Decode
    \/ Resize
    \/ EnsureDir
    \/ EncodeWrite

Spec == Init /\ [][Next]_vars

\* One job, its fields drawn widely: the whole range of quality, every
\* output format, destinations with and without a known extension.
WideJobs ==
    { ImageToSave(src, dst, tw, 1, fmt, q) :
        src \in { <<"a.png">>, <<"b.jpg">> },
        dst \in { <<"d", "e", "o.png">>, <<"b.jpg">>, <<"d", "q">> },
        tw \in { 1, 2 }, fmt \in OutputFormat, q \in 0..MaxQuality }

\* save_images is called with a list of one job.
InvokeOne ==
    /\ pc = "idle"
    /\ \E j \in WideJobs : Start(<< j >>)
    /\ UNCHANGED << prevFs, prevOk >>

NextEnc ==
    \/ InvokeOne
    \/ NextJob
    \/ ReturnOk
    \/ Decode
    \/ Resize
    \/ EnsureDir
    \/ EncodeWrite

SpecEnc == Init /\ [][NextEnc]_vars

\* ------------------------------------------------------------- properties

NJobs == Len(images)

Dest(j) == images[j].destination_path

Src(j) == images[j].path

\* Some step of the running call has failed.
SomeStepFailed == \E n \in 1..Len(log) : ~log[n].ok

\* The call has returned the error of a failed step.
Failed == pc = "done" /\ result.kind = "err"

\* The job whose step was logged last: at a failure, the failing job.
LastJob == log[Len(log)].job

\* Job j of the list has executed its write, and the write succeeded.
Wrote(j) ==
    \E n \in 1..Len(log) : log[n].job = j /\ log[n].step = "write" /\ log[n].ok

\* The bytes job j handed to its write.
DataOf(j) ==
    (CHOOSE e \in { log[n] : n \in 1..Len(log) } : e.job = j /\ e.step = "write").data

\* Job j reached its write step.
ReachedWrite(j) == \E n \in 1..Len(log) : log[n].job = j /\ log[n].step = "write"

\* C1 as stated: once a step of job k has failed, the call has returned an
\* error and no SaveResult, no step of a job after k has been executed, and
\* no destination of a job after k has been created or changed by the call.
C1_AbortLeavesLaterDestinations ==
    SomeStepFailed =>
        /\ Failed
        /\ ~log[Len(log)].ok
        /\ \A n \in 1..Len(log) : log[n].job <= LastJob
        /\ \A j \in (LastJob + 1)..NJobs : fs[Dest(j)] = fs0[Dest(j)]

\* C1 as amended: once a step of job k has failed, the call has returned an
\* error and no SaveResult, no step of a job after k has been executed, and
\* every path the call created or changed is the destination of one of the
\* jobs 1..k or a directory above it (so a later job's destination is
\* touched only where it is also such a path).
C1_AbortOnFirstFailure ==
    SomeStepFailed =>
        /\ Failed
        /\ ~log[Len(log)].ok
        /\ \A n \in 1..Len(log) : log[n].job <= LastJob
        /\ \A p \in Paths :
               fs[p] # fs0[p] => \E j \in 1..LastJob : p \in Prefixes(Dest(j))

\* A call failed at its second job of three, after the first job wrote.
C1_Witness ==
    /\ Failed
    /\ NJobs = 3
    /\ LastJob = 2
    /\ Wrote(1)
    /\ fs[Dest(3)] = fs0[Dest(3)]

\* C2: whenever the call returns a SaveResult, success is true, saved_count
\* is the length of the job list, every job of the list has completed its
\* write, and no step of any job failed.
C2_FullSuccessResult ==
    result.kind = "ok" =>
        /\ result.success
        /\ result.saved_count = NJobs
        /\ \A j \in 1..NJobs : Wrote(j)
        /\ ~SomeStepFailed

\* A call of three jobs returned a SaveResult.
C2_Witness ==
    /\ pc = "done"
    /\ result.kind = "ok"
    /\ NJobs = 3
    /\ result.saved_count = 3

\* Nothing the call found or made has been removed.
NothingRemoved == \A p \in Paths : Exists(fs0, p) => Exists(fs, p)

\* The last job among 1..m whose destination is p.
LastWriter(p, m) ==
    CHOOSE j \in 1..m : Dest(j) = p /\ \A l \in (j + 1)..m : Dest(l) # p

\* C3 as stated: when job k fails, the destination of every earlier job
\* still exists with the content that job wrote, and nothing was removed.
C3_EarlierOutputsKeptAsWritten ==
    Failed =>
        /\ \A j \in 1..(LastJob - 1) : fs[Dest(j)] = DataOf(j)
        /\ NothingRemoved

\* C3 as amended: when job k fails, the destination of every earlier job
\* still exists as a file, and nothing was removed; it holds what the last of
\* the jobs 1..k-1 with that destination wrote, unless the failing job k has
\* the same destination and reached its own write, which may have truncated
\* the file.
C3_NoRollbackOnAbort ==
    Failed =>
        /\ \A j \in 1..(LastJob - 1) :
               /\ IsFile(fs, Dest(j))
               /\ \/ fs[Dest(j)] = DataOf(LastWriter(Dest(j), LastJob - 1))
                  \/ /\ Dest(LastJob) = Dest(j)
                     /\ ReachedWrite(LastJob)
                     /\ fs[Dest(j)] = Partial
        /\ NothingRemoved

\* A call failed at its third job after two jobs wrote two destinations.
C3_Witness ==
    /\ Failed
    /\ LastJob = 3
    /\ Dest(1) # Dest(2)
    /\ fs[Dest(1)] = DataOf(1)
    /\ fs[Dest(2)] = DataOf(2)
    /\ ~Exists(fs0, Dest(1))

\* C4 as stated: no step (decode, resize, directory creation, write) is ever
\* executed for a job whose target_width or target_height is 0.
C4_ZeroDimensionRejectedFirst ==
    \A n \in 1..Len(log) :
        log[n].info.target_width # 0 /\ log[n].info.target_height # 0

\* C5 as stated: when the call has returned, every job's source path holds
\* what it held before the call.
C5_SourcesNeverModified ==
    pc = "done" => \A j \in 1..NJobs : fs[Src(j)] = fs0[Src(j)]

\* The path is the destination of a job of the list, or a directory above one.
IsOutputPath(p) == \E m \in 1..NJobs : p \in Prefixes(Dest(m))

\* C5 as amended: at every moment of a call, a job's source path that is
\* neither the destination path of a job of the list nor a directory above
\* one holds what it held before the call.
C5_SourcesKeptUnlessDestination ==
    \A j \in 1..NJobs : ~IsOutputPath(Src(j)) => fs[Src(j)] = fs0[Src(j)]

\* A call of two jobs with different sources, neither of them an output
\* path, has written both its outputs.
C5_Witness ==
    /\ pc = "done"
    /\ result.kind = "ok"
    /\ NJobs = 2
    /\ Src(1) # Src(2)
    /\ ~IsOutputPath(Src(1))
    /\ ~IsOutputPath(Src(2))
    /\ fs # fs0

\* C6: for a job whose output_format is Webp, the bytes handed to the write
\* are a lossless encoding if and only if quality is 100, and for every
\* quality from 1 to 99 they are a lossy encoding at exactly that level.
C6_WebpQualityBoundary ==
    \A n \in 1..Len(log) :
        (log[n].step = "write" /\ log[n].info.output_format = "Webp") =>
            /\ log[n].data.container = "webp"
            /\ log[n].data.lossless <=> (log[n].info.quality = 100)
            /\ log[n].info.quality \in 1..99 =>
                   /\ ~log[n].data.lossless
                   /\ log[n].data.level = log[n].info.quality
            /\ log[n].ok => fs[DestFilePath(log[n].info)] = log[n].data

\* A Webp job of quality 100 has written its lossless bytes.
C6_Witness ==
    /\ pc = "done"
    /\ result.kind = "ok"
    /\ images[1].output_format = "Webp"
    /\ images[1].quality = 100
    /\ fs[Dest(1)].lossless
    /\ fs[Dest(1)].container = "webp"

\* The directory the current job writes into, and every directory above it,
\* is there.
DirsReady ==
    HasParent(DestFilePath(JobAt(i))) =>
        \A q \in Prefixes(Parent(DestFilePath(JobAt(i)))) : IsDir(fs, q)

\* C7: whenever a job is about to start its write, the parent directory of
\* its destination and all directories above it exist; and a job whose
\* parent directory exists already passes the directory step, which then
\* changes nothing.
C7_DirectoryCreatedBeforeWrite ==
    [][ /\ pc' = "encode" => DirsReady'
        /\ ( /\ pc = "mkdir"
             /\ HasParent(DestFilePath(JobAt(i)))
             /\ IsDir(fs, Parent(DestFilePath(JobAt(i)))) )
           => (pc' = "encode" /\ fs' = fs) ]_vars

\* A job is about to write three levels deep, into directories none of
\* which was there when the call started.
C7_Witness ==
    /\ pc = "encode"
    /\ Len(DestFilePath(JobAt(i))) = 3
    /\ ~Exists(fs0, << "d" >>)
    /\ DirsReady

\* The second of two calls in a row has returned, and the first returned Ok.
SecondRunAfterSuccess == pc = "done" /\ calls >= 2 /\ prevOk

\* C8 as stated: after a second call with the same job list, the first call
\* having succeeded, every destination holds what it held after the first.
C8_RerunLeavesDestinationsIdentical ==
    SecondRunAfterSuccess =>
        \A j \in 1..NJobs : fs[Dest(j)] = prevFs[Dest(j)]

\* No job's destination path is the source path of a job of the list.
NoDestinationIsSource ==
    \A j \in 1..NJobs : \A m \in 1..NJobs : Dest(j) # Src(m)

\* C8 as amended: after a second call with the same job list, both calls
\* having succeeded and no job's destination path being the source path of
\* a job of the list, every destination holds what it held after the first.
C8_BatchIdempotence ==
    (SecondRunAfterSuccess /\ result.kind = "ok" /\ NoDestinationIsSource) =>
        \A j \in 1..NJobs : fs[Dest(j)] = prevFs[Dest(j)]

\* Two calls in a row of two jobs with different destinations both succeeded.
C8_Witness ==
    /\ SecondRunAfterSuccess
    /\ result.kind = "ok"
    /\ NoDestinationIsSource
    /\ NJobs = 2
    /\ Dest(1) # Dest(2)
    /\ fs[Dest(1)] = prevFs[Dest(1)]
    /\ fs[Dest(1)].kind = "image"

\* The steps of one job, in the order of the pipeline.
StepAfter(a, b) ==
    \/ a = "decode" /\ b = "resize"
    \/ a = "resize" /\ b = "mkdir"
    \/ a = "mkdir" /\ b = "write"

\* C9: the steps of a call are executed in list order, one job at a time:
\* the n-th job handled is the n-th job of the list, a job's steps follow one
\* another, and a job's decode comes right after the completed write of the
\* job before it; and when the call returns Ok, each destination holds the
\* output of the last job of the list that names it.
C9_InOrderOneAtATime ==
    /\ \A n \in 1..Len(log) :
           /\ log[n].info = images[log[n].job]
           /\ n = 1 => (log[n].job = 1 /\ log[n].step = "decode")
           /\ n > 1 =>
                  \/ /\ log[n].job = log[n - 1].job
                     /\ log[n - 1].ok
                     /\ StepAfter(log[n - 1].step, log[n].step)
                  \/ /\ log[n].job = log[n - 1].job + 1
                     /\ log[n].step = "decode"
                     /\ log[n - 1].step = "write"
                     /\ log[n - 1].ok
    /\ result.kind = "ok" =>
           \A j \in 1..NJobs :
               fs[Dest(j)] = DataOf(LastWriter(Dest(j), NJobs))

\* A call whose two jobs share a destination and write different bytes has
\* returned Ok, and the destination holds the second job's bytes.
C9_Witness ==
    /\ pc = "done"
    /\ result.kind = "ok"
    /\ NJobs = 2
    /\ Dest(1) = Dest(2)
    /\ DataOf(1) # DataOf(2)
    /\ fs[Dest(2)] = DataOf(2)

====
